---- MODULE Spec2Model ----
(***************************************************************************)
(* Tunnel Process Supervisor of linux_gcloud_connector                     *)
(* (native/src/tunnel.rs): the process-wide TUNNELS registry guarded by a  *)
(* single Mutex, the operations start_tunnel, stop_tunnel and              *)
(* check_tunnel_health running on caller threads, and the gcloud           *)
(* subprocesses they spawn, probe and kill.                                *)
(***************************************************************************)
EXTENDS Integers, Sequences, FiniteSets, TLC

(* ------------------------------ bounds -------------------------------- *)

\* caller threads (api.rs runs every call on the caller's thread)
Threads == {"t1", "t2"}

\* instance names and remote ports the callers pass
Instances == {"vm-a"}
RemotePorts == {22, 3389}

\* the local TCP ports the OS hands out
Ports == {40001, 40002}

\* number of gcloud subprocesses spawned in one run
MaxSpawns == 2

(* ------------------------- program constants --------------------------- *)

\* for attempt in 0..20
PollAttempts == 20

(* ------------------------------ values --------------------------------- *)

\* no thread is "none"; no port and no child are 0
NoThread == "none"

\* anyhow errors of the three operations, and "" for no error
ErrNone == ""
ErrValidation == "validation"
ErrFreePort == "get_free_port"
ErrSpawn == "Failed to spawn gcloud tunnel"
ErrDied == "Tunnel process died immediately after startup"
ErrNotListening == "port is not listening after 10 seconds"
ErrNoTunnel == "No tunnel exists"

\* Result<u16>, Result<()> and Result<bool> of the three operations, each with
\* the operation and the key of the call that returned it
NoResult ==
    [op |-> "none", key |-> "", ok |-> FALSE, port |-> 0, healthy |-> FALSE,
     err |-> ErrNone]
OkPort(k, p) ==
    [op |-> "start", key |-> k, ok |-> TRUE, port |-> p, healthy |-> FALSE,
     err |-> ErrNone]
OkUnit(k) ==
    [op |-> "stop", key |-> k, ok |-> TRUE, port |-> 0, healthy |-> FALSE,
     err |-> ErrNone]
OkBool(k, b) ==
    [op |-> "health", key |-> k, ok |-> TRUE, port |-> 0, healthy |-> b,
     err |-> ErrNone]
Err(o, k, e) ==
    [op |-> o, key |-> k, ok |-> FALSE, port |-> 0, healthy |-> FALSE, err |-> e]

\* thread t returns r from a call whose local IapTunnel held child c
Ret(t, c, r) ==
    [thread |-> t, child |-> c, op |-> r.op, key |-> r.key, ok |-> r.ok,
     port |-> r.port, healthy |-> r.healthy, err |-> r.err]

NoRet == Ret(NoThread, 0, NoResult)

VARIABLES
    tunnels,   \* TUNNELS: key -> [process, local_port]
    lock,      \* the thread holding the TUNNELS mutex, or NoThread
    procs,     \* the gcloud subprocesses spawned so far, by pid
    pc,        \* position of each thread in its call
    inst,      \* argument instance of the call in progress
    rport,     \* argument remote_port of the call in progress
    port,      \* start_tunnel's local `port`
    child,     \* pid of the Child in the thread's local IapTunnel
    attempt,   \* start_tunnel's loop variable `attempt`
    ret,       \* the return of a call, in the state it returns to; else NoRet
    okStart    \* per key, since the last stop_tunnel call for it: the port of the
               \* last start_tunnel that returned Ok, and how many did (up to 2)

VARIABLES
    guard,     \* a call of the path guard: its arguments and what it returned
    copy,      \* a call of copy_with_limit: reader, writer, locals and return
    sftp,      \* a call of an sftp_* operation: its position and what it has done
    listing,   \* the entries readdir returned and the Vec sftp_list_directory built
    ident      \* a call of an identifier validator: its argument and its return

\* the state of the tunnel supervisor, and the state of everything else
tunnelVars == <<tunnels, lock, procs, pc, inst, rport, port, child, attempt, ret,
                okStart>>
others == <<guard, copy, sftp, listing, ident>>

vars == <<tunnels, lock, procs, pc, inst, rport, port, child, attempt, ret,
          okStart, guard, copy, sftp, listing, ident>>

(* ----------------------------- registry -------------------------------- *)

EmptyMap == [k \in {} |-> 0]

\* fn make_tunnel_key: format!("{}:{}", instance, remote_port)
make_tunnel_key(instance, remote_port) ==
    instance \o ":" \o ToString(remote_port)

Keys == {make_tunnel_key(i, r) : i \in Instances, r \in RemotePorts}

KeyOf(t) == make_tunnel_key(inst[t], rport[t])

\* HashMap::insert: a present key has its value replaced
MapInsert(m, k, v) == [x \in (DOMAIN m) \cup {k} |-> IF x = k THEN v ELSE m[x]]

\* mutant of MapRemove: the entry is looked up and left in the map
MapRemove_keeps(m, k) == m

\* HashMap::remove
MapRemove(m, k) == [x \in (DOMAIN m) \ {k} |-> m[x]]

IapTunnel(process, local_port) == [process |-> process, local_port |-> local_port]

(* ---------------------------- subprocesses ----------------------------- *)

\* status of a subprocess: "starting" (running, port not bound yet),
\* "listening" (running, accepting on its port), "exited" (ended on its own
\* or by an outside signal), "killed" (ended by IapTunnel::stop)
Running(ps, p) == ps[p].status \in {"starting", "listening"}

\* TcpStream::connect_timeout(127.0.0.1:port).is_ok(): some process accepts there
PortAccepts(lp) ==
    \E p \in DOMAIN procs : procs[p].status = "listening" /\ procs[p].port = lp

\* IapTunnel::is_port_listening
is_port_listening(lp) == PortAccepts(lp)

\* mutant of is_process_alive: every outcome of try_wait() counts as alive
is_process_alive_always(p) == TRUE

\* IapTunnel::is_process_alive: try_wait() gives Ok(None) for a running child
is_process_alive(p) == Running(procs, p)

\* mutant of IapTunnel_stop: the child is dropped without kill()
IapTunnel_stop_no_kill(ps, p) == ps

\* IapTunnel::stop: kill() then wait(); both results are dropped
IapTunnel_stop(ps, p) ==
    IF Running(ps, p) THEN [ps EXCEPT ![p].status = "killed"] ELSE ps

\* ports no running process is bound to: what bind("127.0.0.1:0") can return
FreePorts == {lp \in Ports : ~PortAccepts(lp)}

\* what is left of a process that ended and that no Child handle refers to
Gone(status) == [key |-> "", port |-> 0, status |-> status]

\* the processes some Child handle refers to: the registry's and the threads'
Refs(tn, ch) ==
    {tn[k].process : k \in DOMAIN tn} \cup {ch[t] : t \in Threads}

\* a process that has ended and that no Child handle refers to leaves the table
Reap(ps, tn, ch) ==
    [p \in DOMAIN ps |->
        IF ps[p].status \in {"exited", "killed"} /\ p \notin Refs(tn, ch)
        THEN Gone(ps[p].status) ELSE ps[p]]

(* ------------------------------- Init ---------------------------------- *)

\* no call of the path guard, of copy_with_limit or of an sftp_* operation is
\* in progress
NoGuard == [fn |-> "none"]
NoCopy == [state |-> "none"]
NoSftp == [op |-> "none"]
NoListing == [state |-> "none"]
NoIdent == [fn |-> "none"]

NoStart == [port |-> 0, n |-> 0]

TunnelInit ==
    /\ tunnels = EmptyMap
    /\ lock = NoThread
    /\ procs = << >>
    /\ pc = [t \in Threads |-> "idle"]
    /\ inst = [t \in Threads |-> ""]
    /\ rport = [t \in Threads |-> 0]
    /\ port = [t \in Threads |-> 0]
    /\ child = [t \in Threads |-> 0]
    /\ attempt = [t \in Threads |-> 0]
    /\ ret = NoRet
    /\ okStart = [k \in Keys |-> NoStart]

Init ==
    /\ TunnelInit
    /\ guard = NoGuard
    /\ copy = NoCopy
    /\ sftp = NoSftp
    /\ listing = NoListing
    /\ ident = NoIdent

\* start_tunnel returned Ok(p) for key k
Record(k, p) ==
    okStart' = [okStart EXCEPT ![k] =
                   [port |-> p, n |-> IF okStart[k].n = 0 THEN 1 ELSE 2]]

\* the call of thread t returns r: its locals go out of scope
Finish(t, r) ==
    /\ pc' = [pc EXCEPT ![t] = "idle"]
    /\ ret' = Ret(t, child[t], r)
    /\ inst' = [inst EXCEPT ![t] = ""]
    /\ rport' = [rport EXCEPT ![t] = 0]
    /\ port' = [port EXCEPT ![t] = 0]
    /\ child' = [child EXCEPT ![t] = 0]
    /\ attempt' = [attempt EXCEPT ![t] = 0]

\* thread t moves on to position l of its call
Goto(t, l) ==
    /\ pc' = [pc EXCEPT ![t] = l]
    /\ ret' = NoRet

\* thread t is called with (instance, remote_port), to start at position l
Call(t, i, r, l) ==
    /\ pc[t] = "idle"
    /\ Goto(t, l)
    /\ inst' = [inst EXCEPT ![t] = i]
    /\ rport' = [rport EXCEPT ![t] = r]

(* --------------------------- start_tunnel ------------------------------ *)

\* a call that may still spawn counts against the spawn bound
PreSpawn == {"s_check", "s_port", "s_spawn"}
SpawnBudget ==
    Len(procs) + Cardinality({t \in Threads : pc[t] \in PreSpawn}) < MaxSpawns

\* mutant of StartCall: the inputs are validated after the subprocess is spawned
StartCall_spawns_first(t) ==
    /\ pc[t] = "idle"
    /\ SpawnBudget
    /\ \E i \in Instances, r \in RemotePorts, valid \in BOOLEAN :
         IF valid
         THEN /\ Call(t, i, r, "s_check")
              /\ UNCHANGED <<port, child, attempt, procs>>
         ELSE /\ Finish(t, Err("start", make_tunnel_key(i, r), ErrValidation))
              /\ procs' = Append(procs, Gone("exited"))
    /\ UNCHANGED <<tunnels, lock, okStart>>
    /\ UNCHANGED others

\* the call and its three lines validate_project_id(project)?,
\* validate_zone(zone)?, validate_instance_name(instance)?: each of project_ok,
\* zone_ok, instance_ok is whether that argument matches its grammar
StartCall(t) ==
    /\ pc[t] = "idle"
    /\ SpawnBudget
    /\ \E i \in Instances, r \in RemotePorts,
          project_ok \in BOOLEAN, zone_ok \in BOOLEAN, instance_ok \in BOOLEAN :
         IF project_ok /\ zone_ok /\ instance_ok
         THEN /\ Call(t, i, r, "s_check")
              /\ UNCHANGED <<port, child, attempt>>
         ELSE Finish(t, Err("start", make_tunnel_key(i, r), ErrValidation))
    /\ UNCHANGED <<tunnels, lock, procs, okStart>>
    /\ UNCHANGED others

\* mutant of StartCheck: the lookup is skipped and every call goes on to spawn
StartCheck_always_spawns(t) ==
    /\ pc[t] = "s_check"
    /\ lock = NoThread
    /\ Goto(t, "s_port")
    /\ UNCHANGED <<tunnels, lock, procs, inst, rport, port, child, attempt, okStart>>
    /\ UNCHANGED others

\* mutant of StartCheck: an entry whose subprocess has ended counts as absent
StartCheck_skips_dead(t) ==
    /\ pc[t] = "s_check"
    /\ lock = NoThread
    /\ IF KeyOf(t) \in DOMAIN tunnels /\ is_process_alive(tunnels[KeyOf(t)].process)
       THEN /\ Finish(t, OkPort(KeyOf(t), tunnels[KeyOf(t)].local_port))
            /\ Record(KeyOf(t), tunnels[KeyOf(t)].local_port)
       ELSE /\ Goto(t, "s_port")
            /\ UNCHANGED <<inst, rport, port, child, attempt, okStart>>
    /\ UNCHANGED <<tunnels, lock, procs>>
    /\ UNCHANGED others

\* the first scope: let tunnels = TUNNELS.lock();
\* if let Some(tunnel) = tunnels.get(&tunnel_key) { return Ok(tunnel.local_port) }
\* and the end of the scope, which drops the guard
StartCheck(t) ==
    /\ pc[t] = "s_check"
    /\ lock = NoThread
    /\ IF KeyOf(t) \in DOMAIN tunnels
       THEN /\ Finish(t, OkPort(KeyOf(t), tunnels[KeyOf(t)].local_port))
            /\ Record(KeyOf(t), tunnels[KeyOf(t)].local_port)
       ELSE /\ Goto(t, "s_port")
            /\ UNCHANGED <<inst, rport, port, child, attempt, okStart>>
    /\ UNCHANGED <<tunnels, lock, procs>>
    /\ UNCHANGED others

\* let port = get_free_port()?: bind 127.0.0.1:0, read the port, drop the listener
get_free_port(t) ==
    /\ pc[t] = "s_port"
    /\ IF FreePorts = {}
       THEN Finish(t, Err("start", KeyOf(t), ErrFreePort))
       ELSE /\ \E lp \in FreePorts : port' = [port EXCEPT ![t] = lp]
            /\ Goto(t, "s_spawn")
            /\ UNCHANGED <<inst, rport, child, attempt>>
    /\ UNCHANGED <<tunnels, lock, procs, okStart>>
    /\ UNCHANGED others

\* Command::new("gcloud")...spawn().map_err(..)? and
\* let mut tunnel = IapTunnel { process: child, local_port: port }
StartSpawn(t) ==
    /\ pc[t] = "s_spawn"
    /\ \E spawned \in BOOLEAN :
         IF spawned
         THEN /\ procs' = Append(procs, [key |-> KeyOf(t), port |-> port[t],
                                         status |-> "starting"])
              /\ child' = [child EXCEPT ![t] = Len(procs) + 1]
              /\ Goto(t, "s_alive")
              /\ UNCHANGED <<inst, rport, port, attempt>>
         ELSE /\ Finish(t, Err("start", KeyOf(t), ErrSpawn))
              /\ procs' = procs
    /\ UNCHANGED <<tunnels, lock, okStart>>
    /\ UNCHANGED others

\* sleep(1000 ms); if !tunnel.is_process_alive() { return Err(..died..) }
StartAlive(t) ==
    /\ pc[t] = "s_alive"
    /\ IF is_process_alive(child[t])
       THEN /\ Goto(t, "s_poll")
            /\ UNCHANGED <<inst, rport, port, child, attempt, procs>>
       ELSE /\ Finish(t, Err("start", KeyOf(t), ErrDied))
            /\ procs' = Reap(procs, tunnels, child')
    /\ UNCHANGED <<tunnels, lock, okStart>>
    /\ UNCHANGED others

\* mutant of StartProbe: after the last attempt the loop starts over
StartProbe_retries(t) ==
    /\ pc[t] = "s_poll"
    /\ IF is_port_listening(port[t])
       THEN /\ Goto(t, "s_insert")
            /\ attempt' = [attempt EXCEPT ![t] = 0]
       ELSE /\ attempt' = [attempt EXCEPT ![t] = (attempt[t] + 1) % PollAttempts]
            /\ pc' = pc
            /\ ret' = NoRet
    /\ UNCHANGED <<tunnels, lock, procs, inst, rport, port, child, okStart>>
    /\ UNCHANGED others

\* one iteration of `for attempt in 0..20`: probe, then break or sleep(500 ms)
StartProbe(t) ==
    /\ pc[t] = "s_poll"
    /\ IF is_port_listening(port[t])
       THEN /\ Goto(t, "s_insert")
            /\ attempt' = [attempt EXCEPT ![t] = 0]
       ELSE IF attempt[t] + 1 = PollAttempts
       THEN /\ Goto(t, "s_fail")
            /\ attempt' = [attempt EXCEPT ![t] = 0]
       ELSE /\ attempt' = [attempt EXCEPT ![t] = attempt[t] + 1]
            /\ pc' = pc
            /\ ret' = NoRet
    /\ UNCHANGED <<tunnels, lock, procs, inst, rport, port, child, okStart>>
    /\ UNCHANGED others

\* if !port_ready { let _ = tunnel.stop(); return Err(..not listening..) }
StartFail(t) ==
    /\ pc[t] = "s_fail"
    /\ Finish(t, Err("start", KeyOf(t), ErrNotListening))
    /\ procs' = Reap(IapTunnel_stop(procs, child[t]), tunnels, child')
    /\ UNCHANGED <<tunnels, lock, okStart>>
    /\ UNCHANGED others

\* let mut tunnels = TUNNELS.lock(); tunnels.insert(tunnel_key, tunnel); Ok(port)
\* (a replaced IapTunnel is dropped: its Child is neither killed nor waited for)
StartInsert(t) ==
    /\ pc[t] = "s_insert"
    /\ lock = NoThread
    /\ tunnels' = MapInsert(tunnels, KeyOf(t), IapTunnel(child[t], port[t]))
    /\ Finish(t, OkPort(KeyOf(t), port[t]))
    /\ procs' = Reap(procs, tunnels', child')
    /\ Record(KeyOf(t), port[t])
    /\ lock' = lock
    /\ UNCHANGED others

(* ---------------------------- stop_tunnel ------------------------------ *)

StopCall(t) ==
    /\ \E i \in Instances, r \in RemotePorts :
         /\ Call(t, i, r, "st_remove")
         /\ okStart' = [okStart EXCEPT ![make_tunnel_key(i, r)] = NoStart]
    /\ UNCHANGED <<tunnels, lock, procs, port, child, attempt>>
    /\ UNCHANGED others

\* let mut tunnels = TUNNELS.lock();
\* if let Some(mut tunnel) = tunnels.remove(&tunnel_key) {..} else { warn; Ok(()) }
StopRemove(t) ==
    /\ pc[t] = "st_remove"
    /\ lock = NoThread
    /\ IF KeyOf(t) \in DOMAIN tunnels
       THEN /\ child' = [child EXCEPT ![t] = tunnels[KeyOf(t)].process]
            /\ tunnels' = MapRemove(tunnels, KeyOf(t))
            /\ Goto(t, "st_stop")
            /\ lock' = t
            /\ UNCHANGED <<inst, rport, port, attempt>>
       ELSE /\ Finish(t, OkUnit(KeyOf(t)))
            /\ UNCHANGED <<tunnels, lock>>
    /\ UNCHANGED <<procs, okStart>>
    /\ UNCHANGED others

\* tunnel.stop()?; Ok(()) with the guard dropped at the end of the function
StopStop(t) ==
    /\ pc[t] = "st_stop"
    /\ lock = t
    /\ Finish(t, OkUnit(KeyOf(t)))
    /\ procs' = Reap(IapTunnel_stop(procs, child[t]), tunnels, child')
    /\ lock' = NoThread
    /\ UNCHANGED <<tunnels, okStart>>
    /\ UNCHANGED others

(* ------------------------ check_tunnel_health -------------------------- *)

HealthCall(t) ==
    /\ \E i \in Instances, r \in RemotePorts : Call(t, i, r, "h_get")
    /\ UNCHANGED <<tunnels, lock, procs, port, child, attempt, okStart>>
    /\ UNCHANGED others

\* let mut tunnels = TUNNELS.lock();
\* if let Some(tunnel) = tunnels.get_mut(&tunnel_key) {..} else { Err(no tunnel) }
HealthGet(t) ==
    /\ pc[t] = "h_get"
    /\ lock = NoThread
    /\ IF KeyOf(t) \in DOMAIN tunnels
       THEN /\ Goto(t, "h_alive")
            /\ lock' = t
            /\ UNCHANGED <<inst, rport, port, child, attempt>>
       ELSE /\ Finish(t, Err("health", KeyOf(t), ErrNoTunnel))
            /\ lock' = lock
    /\ UNCHANGED <<tunnels, procs, okStart>>
    /\ UNCHANGED others

\* mutant of HealthAlive: an entry found dead is removed from the registry
HealthAlive_evicts(t) ==
    /\ pc[t] = "h_alive"
    /\ lock = t
    /\ IF is_process_alive(tunnels[KeyOf(t)].process)
       THEN /\ Goto(t, "h_probe")
            /\ UNCHANGED <<tunnels, lock, inst, rport, port, child, attempt>>
       ELSE /\ Finish(t, OkBool(KeyOf(t), FALSE))
            /\ tunnels' = MapRemove(tunnels, KeyOf(t))
            /\ lock' = NoThread
    /\ UNCHANGED <<procs, okStart>>
    /\ UNCHANGED others

\* mutant of HealthAlive: the guard outlives the return that reports a dead child
HealthAlive_keeps_lock(t) ==
    /\ pc[t] = "h_alive"
    /\ lock = t
    /\ IF is_process_alive(tunnels[KeyOf(t)].process)
       THEN /\ Goto(t, "h_probe")
            /\ UNCHANGED <<inst, rport, port, child, attempt>>
       ELSE Finish(t, OkBool(KeyOf(t), FALSE))
    /\ UNCHANGED <<tunnels, lock, procs, okStart>>
    /\ UNCHANGED others

\* is_healthy, left operand of &&: self.is_process_alive(); false ends the call
HealthAlive(t) ==
    /\ pc[t] = "h_alive"
    /\ lock = t
    /\ IF is_process_alive(tunnels[KeyOf(t)].process)
       THEN /\ Goto(t, "h_probe")
            /\ UNCHANGED <<lock, inst, rport, port, child, attempt>>
       ELSE /\ Finish(t, OkBool(KeyOf(t), FALSE))
            /\ lock' = NoThread
    /\ UNCHANGED <<tunnels, procs, okStart>>
    /\ UNCHANGED others

\* is_healthy, right operand of &&: self.is_port_listening(); Ok(is_healthy)
HealthProbe(t) ==
    /\ pc[t] = "h_probe"
    /\ lock = t
    /\ Finish(t, OkBool(KeyOf(t), is_port_listening(tunnels[KeyOf(t)].local_port)))
    /\ lock' = NoThread
    /\ UNCHANGED <<tunnels, procs, okStart>>
    /\ UNCHANGED others

(* ----------------------------- subprocesses ---------------------------- *)

\* the gcloud subprocess binds --local-host-port and starts accepting
ProcListen(p) ==
    /\ procs[p].status = "starting"
    /\ ~PortAccepts(procs[p].port)
    /\ procs' = [procs EXCEPT ![p].status = "listening"]
    /\ ret' = NoRet
    /\ UNCHANGED <<tunnels, lock, pc, inst, rport, port, child, attempt, okStart>>
    /\ UNCHANGED others

\* the gcloud subprocess ends on its own or is killed from outside the program
ProcExit(p) ==
    /\ Running(procs, p)
    /\ procs' = Reap([procs EXCEPT ![p].status = "exited"], tunnels, child)
    /\ ret' = NoRet
    /\ UNCHANGED <<tunnels, lock, pc, inst, rport, port, child, attempt, okStart>>
    /\ UNCHANGED others

ThreadStep(t) ==
    \/ StartCall(t) \/ StartCheck(t) \/ get_free_port(t)
    \/ StartSpawn(t) \/ StartAlive(t) \/ StartProbe(t) \/ StartFail(t)
    \/ StartInsert(t)
    \/ StopCall(t) \/ StopRemove(t) \/ StopStop(t)
    \/ HealthCall(t) \/ HealthGet(t) \/ HealthAlive(t) \/ HealthProbe(t)

ProcStep ==
    \E p \in DOMAIN procs : ProcListen(p) \/ ProcExit(p)

Next ==
    \/ \E t \in Threads : ThreadStep(t)
    \/ ProcStep

Spec == Init /\ [][Next]_vars

\* one caller making its calls one after the other
NextSeq ==
    \/ ThreadStep("t1")
    \/ ProcStep

SpecSeq == Init /\ [][NextSeq]_vars

\* a step of a call of thread t that is in progress
CallStep(t) == pc[t] # "idle" /\ ThreadStep(t)

\* every thread in a call keeps running, and a thread waiting in lock() gets
\* the lock if it is released again and again: the steps that do not wait for
\* the lock are enabled as long as they are not taken
SpecFair == Spec /\ \A t \in Threads : SF_vars(CallStep(t))

\* the one caller's thread keeps running: no step of an operation waits for
\* ever (sleeps and the connect timeout are bounded, kill is SIGKILL)
SpecSeqFair == SpecSeq /\ WF_vars(ThreadStep("t1"))


(* ----------------------------- path guard ------------------------------ *)

\* A string is a sequence of symbols: "/" "." "_" "-" "1" "U" are one character
\* each, "u" and "x" one lower-case letter each, "home" the four letters home.
PathSymbols == {"/", ".", "home", "u", "x"}

\* longest raw path, in symbols
MaxPathLen == 6

\* the strings of at most n symbols of S
SeqsUpTo(S, n) == UNION {[1 .. k -> S] : k \in 0 .. n}

RawPaths == SeqsUpTo(PathSymbols, MaxPathLen)

\* usernames the callers pass: three that match the grammar and five that do not
Usernames ==
    {<<"u">>, <<"x">>, <<"_", "u", "-", "1">>,
     << >>, <<".", ".">>, <<"1", "u">>, <<"U">>, <<"u", "/", "x">>}

\* number of characters of a symbol, and of a string
CharLen(c) == IF c = "home" THEN 4 ELSE 1

RECURSIVE StrLen(_)
StrLen(str) == IF str = << >> THEN 0 ELSE CharLen(Head(str)) + StrLen(Tail(str))

\* [a-z] and [0-9]
LowerCase == {"a", "u", "x", "z", "home"}
Digits == {"0", "1", "9"}

\* username.len() > 32
UsernameMax == 32

\* USERNAME_REGEX: ^[a-z_][a-z0-9_-]{0,31}$
USERNAME_REGEX(str) ==
    /\ str # << >>
    /\ str[1] \in LowerCase \cup {"_"}
    /\ \A i \in 2 .. Len(str) : str[i] \in LowerCase \cup Digits \cup {"_", "-"}
    /\ StrLen(str) - 1 <= 31

ErrUsername == "Invalid username"
ErrTraversal == "Path traversal not allowed (.. components forbidden)"
ErrOutside == "Access denied: path must be within /home/{username}"
ErrLocalTraversal == "Local path traversal not allowed (.. components forbidden)"
ErrNoHome == "Could not determine home directory"
ErrCanonicalize == "Failed to validate local path"
ErrLocalOutside == "Access denied: local path must be within your home directory"

\* validation::validate_username: empty, too long, or no match of the regex
validate_username(username) ==
    IF username = << >> THEN FALSE
    ELSE IF StrLen(username) > UsernameMax THEN FALSE
    ELSE USERNAME_REGEX(username)

\* the pieces of raw[i..] between its "/" separators, empty ones included,
\* after the pieces done and the unfinished piece cur
RECURSIVE SegsFrom(_, _, _, _)
SegsFrom(raw, i, done, cur) ==
    IF i > Len(raw) THEN Append(done, cur)
    ELSE IF raw[i] = "/" THEN SegsFrom(raw, i + 1, Append(done, cur), << >>)
    ELSE SegsFrom(raw, i + 1, done, Append(cur, raw[i]))

Segs(raw) == SegsFrom(raw, 1, << >>, << >>)

\* Path::is_absolute / has_root on Unix
is_absolute(raw) == raw # << >> /\ raw[1] = "/"

Component(kind, name) == [kind |-> kind, name |-> name]
RootDir == Component("RootDir", << >>)

\* Path::components on Unix: a leading "/" is RootDir; empty pieces are
\* skipped; "." is skipped except as the first piece of a relative path, where
\* it is CurDir; ".." is ParentDir; every other piece is Normal
components(raw) ==
    LET segs == Segs(raw)
        comp(i) ==
            IF segs[i] = << >> THEN Component("skip", << >>)
            ELSE IF segs[i] = <<".">>
            THEN IF i = 1 /\ ~is_absolute(raw)
                 THEN Component("CurDir", << >>)
                 ELSE Component("skip", << >>)
            ELSE IF segs[i] = <<".", ".">> THEN Component("ParentDir", << >>)
            ELSE Component("Normal", segs[i])
        all == [i \in 1 .. Len(segs) |-> comp(i)]
        NotSkipped(c) == c.kind # "skip"
    IN (IF is_absolute(raw) THEN <<RootDir>> ELSE << >>) \o SelectSeq(all, NotSkipped)

\* path.components().any(|c| matches!(c, Component::ParentDir))
has_parent_dir(raw) ==
    \E i \in 1 .. Len(components(raw)) : components(raw)[i].kind = "ParentDir"

\* PathBuf::pop: the last component goes, a lone root stays
PathBuf_pop(acc) ==
    IF acc = << >> \/ acc = <<RootDir>> THEN acc ELSE SubSeq(acc, 1, Len(acc) - 1)

\* the fold of validate_and_normalize_path over comps[i..], from accumulator acc
RECURSIVE normalize(_, _, _)
normalize(comps, i, acc) ==
    IF i > Len(comps) THEN acc
    ELSE LET c == comps[i]
         IN normalize(comps, i + 1,
                CASE c.kind = "ParentDir" -> PathBuf_pop(acc)
                  [] c.kind = "Normal" -> Append(acc, c)
                  [] c.kind = "RootDir" -> <<RootDir>>
                  [] OTHER -> acc)

\* Path::starts_with: component-wise prefix, the path itself included
starts_with(path, base) ==
    /\ Len(base) <= Len(path)
    /\ SubSeq(path, 1, Len(base)) = base

\* PathBuf::join of a relative path: separator, then the path
PathBuf_join(base, raw) ==
    IF is_absolute(raw) THEN raw
    ELSE IF base # << >> /\ base[Len(base)] = "/" THEN base \o raw
    ELSE base \o <<"/">> \o raw

GuardOk(path) == [ok |-> TRUE, path |-> path, err |-> ""]
GuardErr(e) == [ok |-> FALSE, path |-> << >>, err |-> e]
NoGuardResult == [ok |-> FALSE, path |-> << >>, err |-> "none"]

\* format!("/home/{}", username)
HomeOf(username) == <<"/", "home", "/">> \o username

\* mutant of validate_and_normalize_path: the path checks come before the
\* username check
validate_and_normalize_path_path_first(remote_path, username) ==
    IF has_parent_dir(remote_path) THEN GuardErr(ErrTraversal)
    ELSE IF ~validate_username(username) THEN GuardErr(ErrUsername)
    ELSE LET allowed_base == components(HomeOf(username))
             full_path == PathBuf_join(HomeOf(username), remote_path)
             normalized == normalize(components(full_path), 1, << >>)
         IN IF ~starts_with(normalized, allowed_base)
            THEN GuardErr(ErrOutside)
            ELSE GuardOk(normalized)

\* mutant of validate_and_normalize_path: the normalized path is returned
\* without the starts_with check
validate_and_normalize_path_unconfined(remote_path, username) ==
    IF ~validate_username(username) THEN GuardErr(ErrUsername)
    ELSE IF has_parent_dir(remote_path) THEN GuardErr(ErrTraversal)
    ELSE GuardOk(normalize(components(PathBuf_join(HomeOf(username), remote_path)),
                           1, << >>))

\* fn validate_and_normalize_path(remote_path, username) -> Result<PathBuf>
validate_and_normalize_path(remote_path, username) ==
    IF ~validate_username(username) THEN GuardErr(ErrUsername)
    ELSE IF has_parent_dir(remote_path) THEN GuardErr(ErrTraversal)
    ELSE LET allowed_base == components(HomeOf(username))
             full_path == PathBuf_join(HomeOf(username), remote_path)
             normalized == normalize(components(full_path), 1, << >>)
         IN IF ~starts_with(normalized, allowed_base)
            THEN GuardErr(ErrOutside)
            ELSE GuardOk(normalized)

\* what the local filesystem answers: dirs::home_dir(), and canonicalize() of
\* the full path or of its parent joined with the file name (symbolic links
\* can take it anywhere), or an error from both
LocalHomes == {<< >>, HomeOf(<<"u">>)}
CanonOk(raw) == [ok |-> TRUE, path |-> components(raw)]
CanonErr == [ok |-> FALSE, path |-> << >>]
Canonicals ==
    {CanonErr, CanonOk(HomeOf(<<"u">>)), CanonOk(HomeOf(<<"u">>) \o <<"/", "x">>),
     CanonOk(<<"/", "x">>)}

\* fn validate_local_path(local_path) -> Result<PathBuf>, with the answers of
\* the filesystem as arguments; << >> for home is dirs::home_dir() == None
validate_local_path(local_path, home, canon) ==
    IF has_parent_dir(local_path) THEN GuardErr(ErrLocalTraversal)
    ELSE IF home = << >> THEN GuardErr(ErrNoHome)
    ELSE IF ~canon.ok THEN GuardErr(ErrCanonicalize)
    ELSE IF ~starts_with(canon.path, components(home)) THEN GuardErr(ErrLocalOutside)
    ELSE GuardOk(canon.path)

GuardCall(fn, path, username, home, canon) ==
    [fn |-> fn, path |-> path, username |-> username, home |-> home,
     canon |-> canon, state |-> "called", result |-> NoGuardResult]

\* a call of one of the two validators has been made
InitGuard ==
    /\ TunnelInit
    /\ \E raw \in RawPaths :
         \/ \E u \in Usernames : guard = GuardCall("remote", raw, u, << >>, CanonErr)
         \/ \E h \in LocalHomes, c \in Canonicals :
               guard = GuardCall("local", raw, << >>, h, c)
    /\ copy = NoCopy
    /\ sftp = NoSftp
    /\ listing = NoListing
    /\ ident = NoIdent

GuardReturn(r) ==
    /\ guard.state = "called"
    /\ guard' = [guard EXCEPT !.state = "returned", !.result = r]
    /\ UNCHANGED <<tunnelVars, copy, sftp, listing, ident>>

ValidateRemote ==
    /\ guard.fn = "remote"
    /\ GuardReturn(validate_and_normalize_path(guard.path, guard.username))

ValidateLocal ==
    /\ guard.fn = "local"
    /\ GuardReturn(validate_local_path(guard.path, guard.home, guard.canon))

NextGuard == ValidateRemote \/ ValidateLocal

SpecGuard == InitGuard /\ [][NextGuard]_vars

(* --------------------------- copy_with_limit --------------------------- *)

\* longest source, in bytes, and largest max_size
MaxSrcLen == 5
MaxLimit == 4

\* let mut buffer = [0u8; 8192]
BufferSize == 8192

ErrRead == "Read error during file transfer"
ErrWrite == "Write error during file transfer"
ErrSize == "File size exceeds maximum allowed size"

CopyOk(n) == [ok |-> TRUE, bytes |-> n, err |-> ""]
CopyErr(e) == [ok |-> FALSE, bytes |-> 0, err |-> e]
NoCopyResult == [ok |-> FALSE, bytes |-> 0, err |-> "none"]

Min(a, b) == IF a <= b THEN a ELSE b

\* bytes i+1 .. j of the source; byte k of the source is written as k
Bytes(i, j) == [k \in 1 .. (j - i) |-> i + k]

\* copy_with_limit is called on a reader with src bytes to give and an empty
\* writer: src is what the reader still holds at position pos, out what the
\* writer has taken
InitCopy ==
    /\ TunnelInit
    /\ guard = NoGuard
    /\ \E n \in 0 .. MaxSrcLen, m \in 0 .. MaxLimit :
         copy = [state |-> "read", src |-> n, max_size |-> m, pos |-> 0,
                 bytes_read |-> 0, total_bytes |-> 0, out |-> << >>,
                 result |-> NoCopyResult]
    /\ sftp = NoSftp
    /\ listing = NoListing
    /\ ident = NoIdent

CopyFrame == UNCHANGED <<tunnelVars, guard, sftp, listing, ident>>

CopyReturn(r) == copy' = [copy EXCEPT !.state = "returned", !.result = r]

\* mutant of CopyRead: the limit is tested with >= instead of >
CopyRead_at_limit ==
    /\ copy.state = "read"
    /\ \/ CopyReturn(CopyErr(ErrRead))
       \/ /\ copy.pos = copy.src
          /\ CopyReturn(CopyOk(copy.total_bytes))
       \/ \E n \in 1 .. Min(BufferSize, copy.src - copy.pos) :
            LET total == copy.total_bytes + n
            IN IF total >= copy.max_size
               THEN copy' = [copy EXCEPT !.state = "returned", !.pos = @ + n,
                                        !.bytes_read = n, !.total_bytes = total,
                                        !.result = CopyErr(ErrSize)]
               ELSE copy' = [copy EXCEPT !.state = "write", !.pos = @ + n,
                                        !.bytes_read = n, !.total_bytes = total]
    /\ CopyFrame

\* mutant of CopyRead: the chunk goes to the writer without the limit test
CopyRead_unchecked ==
    /\ copy.state = "read"
    /\ \/ CopyReturn(CopyErr(ErrRead))
       \/ /\ copy.pos = copy.src
          /\ CopyReturn(CopyOk(copy.total_bytes))
       \/ \E n \in 1 .. Min(BufferSize, copy.src - copy.pos) :
            copy' = [copy EXCEPT !.state = "write", !.pos = @ + n,
                                 !.bytes_read = n,
                                 !.total_bytes = copy.total_bytes + n]
    /\ CopyFrame

\* reader.read(&mut buffer): an error, 0 at end of file, or 1..8192 bytes, as
\* many as the reader chooses to give; then total_bytes += bytes_read and the
\* test against max_size. total_bytes is a u64 that never passes
\* max_size + 8192, and the callers pass MAX_FILE_SIZE = 10 * 2^30 for
\* max_size, so the addition does not wrap.
CopyRead ==
    /\ copy.state = "read"
    /\ \/ CopyReturn(CopyErr(ErrRead))
       \/ /\ copy.pos = copy.src
          /\ CopyReturn(CopyOk(copy.total_bytes))
       \/ \E n \in 1 .. Min(BufferSize, copy.src - copy.pos) :
            LET total == copy.total_bytes + n
            IN IF total > copy.max_size
               THEN copy' = [copy EXCEPT !.state = "returned", !.pos = @ + n,
                                        !.bytes_read = n, !.total_bytes = total,
                                        !.result = CopyErr(ErrSize)]
               ELSE copy' = [copy EXCEPT !.state = "write", !.pos = @ + n,
                                        !.bytes_read = n, !.total_bytes = total]
    /\ CopyFrame

\* writer.write_all(&buffer[..bytes_read]): all of the chunk, or an error after
\* part of it
CopyWrite ==
    /\ copy.state = "write"
    /\ \/ copy' = [copy EXCEPT !.state = "read",
                               !.out = @ \o Bytes(copy.pos - copy.bytes_read, copy.pos)]
       \/ \E w \in 0 .. copy.bytes_read - 1 :
            copy' = [copy EXCEPT !.state = "returned",
                                 !.out = @ \o Bytes(copy.pos - copy.bytes_read,
                                                    copy.pos - copy.bytes_read + w),
                                 !.result = CopyErr(ErrWrite)]
    /\ CopyFrame

NextCopy == CopyRead \/ CopyWrite

SpecCopy == InitCopy /\ [][NextCopy]_vars

(* ------------------------- sftp_list_directory ------------------------- *)

\* names of the entries of the remote directory, as strings of the one-character
\* symbols "." "A" "B" "a" "b"
RemoteNames ==
    {<<".">>, <<".", ".">>, <<"a">>, <<"A">>, <<"b">>, <<"B">>, <<"a", "b">>}

\* most entries a remote directory holds
MaxEntries == 3

\* the code point of a character
CodePoint(c) ==
    CASE c = "." -> 46 [] c = "A" -> 65 [] c = "B" -> 66
      [] c = "a" -> 97 [] c = "b" -> 98

\* char::to_lowercase, and String::to_lowercase
CharToLower(c) == CASE c = "A" -> "a" [] c = "B" -> "b" [] OTHER -> c
to_lowercase(str) == [i \in 1 .. Len(str) |-> CharToLower(str[i])]

\* Ord for String from position i: "Less", "Equal" or "Greater", by code point,
\* a proper prefix being Less
RECURSIVE StrCmpFrom(_, _, _)
StrCmpFrom(a, b, i) ==
    IF i > Len(a) /\ i > Len(b) THEN "Equal"
    ELSE IF i > Len(a) THEN "Less"
    ELSE IF i > Len(b) THEN "Greater"
    ELSE IF CodePoint(a[i]) < CodePoint(b[i]) THEN "Less"
    ELSE IF CodePoint(a[i]) > CodePoint(b[i]) THEN "Greater"
    ELSE StrCmpFrom(a, b, i + 1)

StrCmp(a, b) == StrCmpFrom(a, b, 1)

\* what the server holds for one entry: its file name and its stat.is_dir()
DirEntry(name, is_dir) == [name |-> name, is_dir |-> is_dir]

\* RemoteFileEntry, its name and is_directory fields
RemoteFileEntry(name, is_directory) == [name |-> name, is_directory |-> is_directory]

\* ssh2's Sftp::readdir: the entries in the server's order, "." and ".." left
\* out, each file name joined to the directory's path
readdir(served) ==
    LET Listed(e) == e.name # <<".">> /\ e.name # <<".", ".">>
    IN SelectSeq(served, Listed)

\* entry_path.file_name().and_then(to_str).unwrap_or(""): the last component
\* of dir/name; none for "..", and the directory's own name (written "") for "."
file_name(name) == IF name \in {<<".">>, <<".", ".">>} THEN << >> ELSE name

\* the loop over entries: "." and ".." skipped, the others pushed in order
RECURSIVE BuildFrom(_, _, _)
BuildFrom(entries, i, result) ==
    IF i > Len(entries) THEN result
    ELSE LET name == file_name(entries[i].name)
         IN IF name = <<".">> \/ name = <<".", ".">>
            THEN BuildFrom(entries, i + 1, result)
            ELSE BuildFrom(entries, i + 1,
                           Append(result, RemoteFileEntry(name, entries[i].is_dir)))

\* mutant of sort_cmp: names are compared as they are, not lower-cased
sort_cmp_case_sensitive(a, b) ==
    IF a.is_directory /\ ~b.is_directory THEN "Less"
    ELSE IF ~a.is_directory /\ b.is_directory THEN "Greater"
    ELSE StrCmp(a.name, b.name)

\* the closure given to sort_by: directories first, then lower-cased names
sort_cmp(a, b) ==
    IF a.is_directory /\ ~b.is_directory THEN "Less"
    ELSE IF ~a.is_directory /\ b.is_directory THEN "Greater"
    ELSE StrCmp(to_lowercase(a.name), to_lowercase(b.name))

\* x put into the sorted sequence sorted, after every element not Greater
\* than it
Insert(sorted, x) ==
    LET after == {i \in 1 .. Len(sorted) : sort_cmp(sorted[i], x) = "Greater"}
        at == IF after = {} THEN Len(sorted) + 1
              ELSE CHOOSE i \in after : \A j \in after : i <= j
    IN SubSeq(sorted, 1, at - 1) \o <<x>> \o SubSeq(sorted, at, Len(sorted))

\* slice::sort_by, a stable sort: elements that compare Equal keep their order
RECURSIVE sort_by(_, _, _)
sort_by(v, i, sorted) ==
    IF i > Len(v) THEN sorted ELSE sort_by(v, i + 1, Insert(sorted, v[i]))

\* sftp_list_directory from the readdir call on, for the entries as served
list_directory(served) == sort_by(BuildFrom(readdir(served), 1, << >>), 1, << >>)

\* the server is about to answer readdir: served is its entries, each name
\* once, in the order it sends them
InitListing ==
    /\ TunnelInit
    /\ guard = NoGuard
    /\ copy = NoCopy
    /\ sftp = NoSftp
    /\ ident = NoIdent
    /\ \E n \in 0 .. MaxEntries :
         \E names \in [1 .. n -> RemoteNames], dirs \in [1 .. n -> BOOLEAN] :
            /\ \A i, j \in 1 .. n : i # j => names[i] # names[j]
            /\ listing = [state |-> "readdir",
                          served |-> [i \in 1 .. n |-> DirEntry(names[i], dirs[i])],
                          result |-> << >>]

ListDirectory ==
    /\ listing.state = "readdir"
    /\ listing' = [listing EXCEPT !.state = "returned",
                                  !.result = list_directory(listing.served)]
    /\ UNCHANGED <<tunnelVars, guard, copy, sftp, ident>>

NextListing == ListDirectory

SpecListing == InitListing /\ [][NextListing]_vars

(* --------------------------- sftp operations --------------------------- *)

SftpOps == {"list", "download", "upload", "mkdir", "delete"}

\* the path validations of an operation, in the order of its first lines
Validations(op) ==
    CASE op = "download" -> <<"remote", "local">>
      [] op = "upload" -> <<"local", "remote">>
      [] OTHER -> <<"remote">>

\* the requests of an operation once the sftp channel is open, in order
Requests(op, is_directory) ==
    CASE op = "list" -> <<"readdir">>
      [] op = "download" -> <<"sftp.open", "File::create", "copy_with_limit">>
      [] op = "upload" -> <<"File::open", "sftp.create", "copy_with_limit">>
      [] op = "mkdir" -> <<"mkdir">>
      [] op = "delete" -> IF is_directory THEN <<"rmdir">> ELSE <<"unlink">>

\* arguments the callers pass: a path that passes and one with "..", a
\* username that matches its grammar and one that does not
SftpPaths == {<<"x">>, <<".", ".">>}
SftpUsernames == {<<"u">>, <<"U">>}

ErrConnect == "Failed to connect to SSH server"
ErrSessionNew == "Failed to create SSH session"
ErrHandshake == "SSH handshake failed"
ErrNoKey == "All SSH authentication methods failed: SSH key file not found"
ErrAllAuth == "All SSH authentication methods failed"
ErrAuthCheck == "SSH authentication failed despite successful auth call"
ErrSftpChannel == "Failed to create SFTP session"
ErrRequest == "Failed request"

\* the entries pushed on auth_errors
MsgAgent == "SSH agent: {e}"
MsgKeyMissing == "SSH key file not found at: {key_path}"
MsgKeyFile == "SSH key file ({key_path}): {e}"
MsgFinal == "Final authentication check failed"

\* an sftp_* operation is called: nothing validated, no connection, no session
SftpCall(op, is_directory, remote_path, local_path, username, canon) ==
    [op |-> op, is_directory |-> is_directory, remote_path |-> remote_path,
     local_path |-> local_path, username |-> username, canon |-> canon,
     pc |-> "validate", done |-> 0, trace |-> << >>,
     connects |-> 0, sessions |-> 0, authed |-> FALSE, agent_ok |-> FALSE,
     key_exists |-> "unchecked", auth_errors |-> << >>, listed |-> << >>,
     local_file |-> "untouched", result |-> "none"]

InitSftp ==
    /\ TunnelInit
    /\ guard = NoGuard
    /\ copy = NoCopy
    /\ listing = NoListing
    /\ ident = NoIdent
    /\ \E op \in SftpOps, rp \in SftpPaths, u \in SftpUsernames :
         \/ /\ op \in {"download", "upload"}
            /\ \E lp \in SftpPaths, c \in Canonicals :
                  sftp = SftpCall(op, FALSE, rp, lp, u, c)
         \/ /\ op = "delete"
            /\ \E d \in BOOLEAN : sftp = SftpCall(op, d, rp, << >>, u, CanonErr)
         \/ /\ op \in {"list", "mkdir"}
            /\ sftp = SftpCall(op, FALSE, rp, << >>, u, CanonErr)

SftpFrame == UNCHANGED <<tunnelVars, guard, copy, listing, ident>>

\* the step named step is made at position at: it fails with e and the
\* operation returns, or it succeeds and the operation goes on to next
SftpStep(at, step, ok, e, next) ==
    /\ sftp.pc = at
    /\ sftp' = [sftp EXCEPT !.trace = Append(@, step),
                            !.pc = IF ok THEN next ELSE "returned",
                            !.result = IF ok THEN @ ELSE e]
    /\ SftpFrame

\* mutant of SftpValidate: the Result of a validation is dropped
SftpValidate_ignored ==
    /\ sftp.pc = "validate"
    /\ LET kind == Validations(sftp.op)[sftp.done + 1]
       IN sftp' = [sftp EXCEPT
                     !.trace = Append(@, "validate_" \o kind),
                     !.done = @ + 1,
                     !.pc = IF sftp.done + 1 = Len(Validations(sftp.op))
                            THEN "connect" ELSE "validate"]
    /\ SftpFrame

\* validate_and_normalize_path(&remote_path, &username)? or
\* validate_local_path(&local_path)?, the next one of the operation
SftpValidate ==
    /\ sftp.pc = "validate"
    /\ LET kind == Validations(sftp.op)[sftp.done + 1]
           r == IF kind = "remote"
                THEN validate_and_normalize_path(sftp.remote_path, sftp.username)
                ELSE validate_local_path(sftp.local_path, HomeOf(<<"u">>), sftp.canon)
       IN sftp' = [sftp EXCEPT
                     !.trace = Append(@, "validate_" \o kind),
                     !.done = IF r.ok THEN @ + 1 ELSE @,
                     !.pc = IF ~r.ok THEN "returned"
                            ELSE IF sftp.done + 1 = Len(Validations(sftp.op))
                            THEN "connect" ELSE "validate",
                     !.result = IF r.ok THEN @ ELSE r.err]
    /\ SftpFrame

\* create_ssh_session: TcpStream::connect(host:port)?
SshConnect ==
    /\ sftp.pc = "connect"
    /\ \E ok \in BOOLEAN :
         sftp' = [sftp EXCEPT !.trace = Append(@, "connect"),
                              !.connects = IF ok THEN @ + 1 ELSE @,
                              !.pc = IF ok THEN "session_new" ELSE "returned",
                              !.result = IF ok THEN @ ELSE ErrConnect]
    /\ SftpFrame

\* Session::new()?
SshSessionNew ==
    /\ sftp.pc = "session_new"
    /\ \E ok \in BOOLEAN :
         sftp' = [sftp EXCEPT !.trace = Append(@, "Session::new"),
                              !.sessions = IF ok THEN @ + 1 ELSE @,
                              !.pc = IF ok THEN "handshake" ELSE "returned",
                              !.result = IF ok THEN @ ELSE ErrSessionNew]
    /\ SftpFrame

\* sess.set_tcp_stream(tcp); sess.handshake()?
SshHandshake ==
    \E ok \in BOOLEAN : SftpStep("handshake", "handshake", ok, ErrHandshake, "agent")

\* mutant of SshAgent: the key file is tried whatever the agent answered
SshAgent_always_key ==
    /\ sftp.pc = "agent"
    /\ \E ok \in BOOLEAN, authed \in BOOLEAN :
         /\ authed => ok
         /\ sftp' = [sftp EXCEPT !.trace = Append(@, "userauth_agent"),
                                 !.agent_ok = ok,
                                 !.authed = authed,
                                 !.auth_errors = IF ok THEN @ ELSE Append(@, MsgAgent),
                                 !.pc = "home_dir"]
    /\ SftpFrame

\* if let Err(e) = sess.userauth_agent(username) { auth_errors.push(..); .. }:
\* Err leads to the key file; Ok leaves the session authenticated or, as far
\* as this code knows, not
SshAgent ==
    /\ sftp.pc = "agent"
    /\ \E ok \in BOOLEAN, authed \in BOOLEAN :
         /\ authed => ok
         /\ sftp' = [sftp EXCEPT !.trace = Append(@, "userauth_agent"),
                                 !.agent_ok = ok,
                                 !.authed = authed,
                                 !.auth_errors = IF ok THEN @ ELSE Append(@, MsgAgent),
                                 !.pc = IF ok THEN "authenticated" ELSE "home_dir"]
    /\ SftpFrame

\* dirs::home_dir().ok_or_else(..)?
SshHomeDir ==
    \E ok \in BOOLEAN : SftpStep("home_dir", "home_dir", ok, ErrNoHome, "key_exists")

\* if !key_path.exists() { auth_errors.push(..); return Err(..join..) }
SshKeyExists ==
    /\ sftp.pc = "key_exists"
    /\ \E exists \in BOOLEAN :
         LET errors == IF exists THEN sftp.auth_errors
                       ELSE Append(sftp.auth_errors, MsgKeyMissing)
         IN sftp' = [sftp EXCEPT !.trace = Append(@, "key_path.exists"),
                                 !.key_exists = IF exists THEN "yes" ELSE "no",
                                 !.auth_errors = errors,
                                 !.listed = IF exists THEN @ ELSE errors,
                                 !.pc = IF exists THEN "pubkey" ELSE "returned",
                                 !.result = IF exists THEN @ ELSE ErrNoKey]
    /\ SftpFrame

\* mutant of SshPubkey: the error names the key file's failure alone
SshPubkey_last_only ==
    /\ sftp.pc = "pubkey"
    /\ \E ok \in BOOLEAN, authed \in BOOLEAN :
         /\ authed => ok
         /\ sftp' = [sftp EXCEPT !.trace = Append(@, "userauth_pubkey_file"),
                                 !.authed = authed,
                                 !.auth_errors = IF ok THEN @ ELSE Append(@, MsgKeyFile),
                                 !.listed = IF ok THEN @ ELSE <<MsgKeyFile>>,
                                 !.pc = IF ok THEN "authenticated" ELSE "returned",
                                 !.result = IF ok THEN @ ELSE ErrAllAuth]
    /\ SftpFrame

\* if let Err(e) = sess.userauth_pubkey_file(username, None, &key_path, None)
\* { auth_errors.push(..); return Err(..join..) }
SshPubkey ==
    /\ sftp.pc = "pubkey"
    /\ \E ok \in BOOLEAN, authed \in BOOLEAN :
         /\ authed => ok
         /\ LET errors == IF ok THEN sftp.auth_errors
                          ELSE Append(sftp.auth_errors, MsgKeyFile)
            IN sftp' = [sftp EXCEPT !.trace = Append(@, "userauth_pubkey_file"),
                                    !.authed = authed,
                                    !.auth_errors = errors,
                                    !.listed = IF ok THEN @ ELSE errors,
                                    !.pc = IF ok THEN "authenticated" ELSE "returned",
                                    !.result = IF ok THEN @ ELSE ErrAllAuth]
    /\ SftpFrame

\* mutant of SshAuthenticated: the session is returned without the final test
SshAuthenticated_unchecked ==
    SftpStep("authenticated", "authenticated", TRUE, ErrAuthCheck, "sftp_channel")

\* if !sess.authenticated() { auth_errors.push(..); return Err(..join..) };
\* Ok(sess)
SshAuthenticated ==
    /\ sftp.pc = "authenticated"
    /\ LET errors == IF sftp.authed THEN sftp.auth_errors
                     ELSE Append(sftp.auth_errors, MsgFinal)
       IN sftp' = [sftp EXCEPT !.trace = Append(@, "authenticated"),
                               !.auth_errors = errors,
                               !.listed = IF sftp.authed THEN @ ELSE errors,
                               !.pc = IF sftp.authed THEN "sftp_channel" ELSE "returned",
                               !.result = IF sftp.authed THEN @ ELSE ErrAuthCheck]
    /\ SftpFrame

\* sess.sftp()?
SftpChannel ==
    \E ok \in BOOLEAN :
       SftpStep("sftp_channel", "sess.sftp", ok, ErrSftpChannel, "request")

\* the local destination of a download after a request: File::create makes it
\* empty, copy_with_limit fills it, and a failed copy leaves what it wrote
LocalFileAfter(file, op, req, ok, failed_copy) ==
    IF op # "download" THEN file
    ELSE IF req = "File::create" THEN (IF ok THEN "empty" ELSE file)
    ELSE IF req = "copy_with_limit" THEN (IF ok THEN "complete" ELSE failed_copy)
    ELSE file

\* mutant of SftpRequest: a failed copy removes the destination
SftpRequest_cleans_up ==
    /\ sftp.pc = "request"
    /\ LET reqs == Requests(sftp.op, sftp.is_directory)
           n == Cardinality({i \in 1 .. Len(sftp.trace) :
                               \E j \in 1 .. Len(reqs) : sftp.trace[i] = reqs[j]})
           req == reqs[n + 1]
       IN \E ok \in BOOLEAN :
            sftp' = [sftp EXCEPT
                       !.trace = Append(@, req),
                       !.local_file = LocalFileAfter(@, sftp.op, req, ok, "removed"),
                       !.pc = IF ok /\ n + 1 < Len(reqs) THEN "request" ELSE "returned",
                       !.result = IF ok
                                  THEN (IF n + 1 = Len(reqs) THEN "Ok" ELSE @)
                                  ELSE ErrRequest]
    /\ SftpFrame

\* the next request of the operation, each ended by ?; after the last, Ok
SftpRequest ==
    /\ sftp.pc = "request"
    /\ LET reqs == Requests(sftp.op, sftp.is_directory)
           n == Cardinality({i \in 1 .. Len(sftp.trace) :
                               \E j \in 1 .. Len(reqs) : sftp.trace[i] = reqs[j]})
           req == reqs[n + 1]
       IN \E ok \in BOOLEAN :
            sftp' = [sftp EXCEPT
                       !.trace = Append(@, req),
                       !.local_file = LocalFileAfter(@, sftp.op, req, ok, "partial"),
                       !.pc = IF ok /\ n + 1 < Len(reqs) THEN "request" ELSE "returned",
                       !.result = IF ok
                                  THEN (IF n + 1 = Len(reqs) THEN "Ok" ELSE @)
                                  ELSE ErrRequest]
    /\ SftpFrame

NextSftp ==
    \/ SftpValidate
    \/ SshConnect \/ SshSessionNew \/ SshHandshake \/ SshAgent \/ SshHomeDir
    \/ SshKeyExists \/ SshPubkey \/ SshAuthenticated
    \/ SftpChannel \/ SftpRequest

SpecSftp == InitSftp /\ [][NextSftp]_vars

(* ------------------------ identifier validators ------------------------ *)

\* characters of an argument: of each class of the grammars, and those a
\* shell or a path gives a meaning to; BQ is the backquote, LF the line feed
Chars == {"a", "z", "0", "9", "-", "_", "A", ";", "|", "&", "BQ", "$", "(", ")",
          "/", ".", " ", "LF"}
EdgeChars == {"a", "1", "-", "_", "A", ";", "LF"}
FillChars == {"a", "-"}

\* lengths of the filled part of an argument, around the limits of the grammars
FillLens == {0, 1, 2, 3, 4, 26, 27, 28, 29, 59, 60, 61, 62}

Fill(c, n) == [i \in 1 .. n |-> c]

\* arguments: the empty string, every single character, and a first
\* character, any character, a filling and a last character
Idents ==
    {<< >>} \cup {<<c>> : c \in Chars}
    \cup {<<f, l>> : f \in EdgeChars, l \in EdgeChars}
    \cup {<<f, m>> \o Fill(c, n) \o <<l>> :
            f \in EdgeChars, m \in Chars, c \in FillChars, n \in FillLens,
            l \in EdgeChars}

\* arguments of the zone functions
ZoneSymbols == {"a", "1", "-", "/"}
MaxUrlLen == 8
ZoneTexts ==
    SeqsUpTo(ZoneSymbols, MaxUrlLen)
    \cup {<<"a", "-", "a", "1", "-", "a", c>> : c \in Chars}
    \cup {<<c, "a", "-", "a", "1", "-", "a">> : c \in Chars}
    \cup {<<"u", "-", "x", "1", "-", c>> : c \in Chars}

\* {4,28}, {0,61} and len() > 63
ProjectMidMin == 4
ProjectMidMax == 28
InstanceMidMax == 61
InstanceMax == 63

\* PROJECT_ID_REGEX: ^[a-z]([a-z0-9-]{4,28}[a-z0-9])?$
PROJECT_ID_REGEX(str) ==
    /\ Len(str) >= 1
    /\ str[1] \in LowerCase
    /\ \/ Len(str) = 1
       \/ /\ Len(str) - 2 \in ProjectMidMin .. ProjectMidMax
          /\ \A i \in 2 .. Len(str) - 1 : str[i] \in LowerCase \cup Digits \cup {"-"}
          /\ str[Len(str)] \in LowerCase \cup Digits

\* the first position from i on whose character is not of the class
RECURSIVE SkipClass(_, _, _)
SkipClass(str, i, class) ==
    IF i <= Len(str) /\ str[i] \in class THEN SkipClass(str, i + 1, class) ELSE i

\* mutant of ZONE_REGEX: without the closing anchor
ZONE_REGEX_open_ended(str) ==
    LET a == SkipClass(str, 1, LowerCase)
        b == SkipClass(str, a + 1, LowerCase)
        c == SkipClass(str, b, Digits)
    IN /\ a > 1 /\ a <= Len(str) /\ str[a] = "-"
       /\ b > a + 1
       /\ c > b /\ c <= Len(str) /\ str[c] = "-"
       /\ c + 1 <= Len(str) /\ str[c + 1] \in LowerCase

\* ZONE_REGEX: ^[a-z]+-[a-z]+[0-9]+-[a-z]$ ; the classes that follow one
\* another are disjoint, so each repetition takes all it can
ZONE_REGEX(str) ==
    LET a == SkipClass(str, 1, LowerCase)
        b == SkipClass(str, a + 1, LowerCase)
        c == SkipClass(str, b, Digits)
    IN /\ a > 1 /\ a <= Len(str) /\ str[a] = "-"
       /\ b > a + 1
       /\ c > b /\ c <= Len(str) /\ str[c] = "-"
       /\ c + 1 = Len(str) /\ str[c + 1] \in LowerCase

\* INSTANCE_NAME_REGEX: ^[a-z]([a-z0-9-]{0,61}[a-z0-9])?$
INSTANCE_NAME_REGEX(str) ==
    /\ Len(str) >= 1
    /\ str[1] \in LowerCase
    /\ \/ Len(str) = 1
       \/ /\ Len(str) - 2 \in 0 .. InstanceMidMax
          /\ \A i \in 2 .. Len(str) - 1 : str[i] \in LowerCase \cup Digits \cup {"-"}
          /\ str[Len(str)] \in LowerCase \cup Digits

\* validation::validate_project_id: Ok(()) is TRUE
validate_project_id(project_id) ==
    IF project_id = << >> THEN FALSE
    ELSE PROJECT_ID_REGEX(project_id)

\* validation::validate_zone
validate_zone(zone) ==
    IF zone = << >> THEN FALSE
    ELSE ZONE_REGEX(zone)

\* validation::validate_instance_name
validate_instance_name(instance_name) ==
    IF instance_name = << >> THEN FALSE
    ELSE IF StrLen(instance_name) > InstanceMax THEN FALSE
    ELSE INSTANCE_NAME_REGEX(instance_name)

ErrZone == "Invalid zone"
ZoneOk(z) == [ok |-> TRUE, zone |-> z, err |-> ""]
ZoneErr(e) == [ok |-> FALSE, zone |-> << >>, err |-> e]

\* zone_url.split(..).last(): the text after the last slash, the whole when
\* there is none; split always yields a piece, so last() is never None
split_last(zone_url) ==
    LET slashes == {i \in 1 .. Len(zone_url) : zone_url[i] = "/"}
        from == IF slashes = {} THEN 1
                ELSE (CHOOSE i \in slashes : \A j \in slashes : j <= i) + 1
    IN SubSeq(zone_url, from, Len(zone_url))

\* mutant of sanitize_zone_from_url: the piece is returned as it is
sanitize_zone_from_url_unvalidated(zone_url) == ZoneOk(split_last(zone_url))

\* validation::sanitize_zone_from_url
sanitize_zone_from_url(zone_url) ==
    LET zone_name == split_last(zone_url)
    IN IF validate_zone(zone_name) THEN ZoneOk(zone_name) ELSE ZoneErr(ErrZone)

IdentCall(fn, input) ==
    [fn |-> fn, input |-> input, state |-> "called", ok |-> FALSE, zone |-> << >>]

InitIdent ==
    /\ TunnelInit
    /\ guard = NoGuard
    /\ copy = NoCopy
    /\ sftp = NoSftp
    /\ listing = NoListing
    /\ \/ \E fn \in {"validate_project_id", "validate_instance_name",
                     "validate_username"}, input \in Idents :
             ident = IdentCall(fn, input)
       \/ \E fn \in {"validate_zone", "sanitize_zone_from_url"},
             input \in ZoneTexts :
             ident = IdentCall(fn, input)

IdentReturn(fn, ok, zone) ==
    /\ ident.fn = fn
    /\ ident.state = "called"
    /\ ident' = [ident EXCEPT !.state = "returned", !.ok = ok, !.zone = zone]
    /\ UNCHANGED <<tunnelVars, guard, copy, sftp, listing>>

ValidateProjectId ==
    IdentReturn("validate_project_id", validate_project_id(ident.input), << >>)

ValidateZone ==
    IdentReturn("validate_zone", validate_zone(ident.input), << >>)

ValidateInstanceName ==
    IdentReturn("validate_instance_name", validate_instance_name(ident.input), << >>)

ValidateUsername ==
    IdentReturn("validate_username", validate_username(ident.input), << >>)

SanitizeZoneFromUrl ==
    LET r == sanitize_zone_from_url(ident.input)
    IN IdentReturn("sanitize_zone_from_url", r.ok, r.zone)

NextIdent ==
    \/ ValidateProjectId \/ ValidateZone \/ ValidateInstanceName
    \/ ValidateUsername \/ SanitizeZoneFromUrl

SpecIdent == InitIdent /\ [][NextIdent]_vars

(* ------------------------------ claims --------------------------------- *)

StartPcs == {"s_check", "s_port", "s_spawn", "s_alive", "s_poll", "s_fail", "s_insert"}
HealthPcs == {"h_get", "h_alive", "h_probe"}

\* thread t takes a step of its call
Steps(t) ==
    pc'[t] # pc[t] \/ attempt'[t] # attempt[t] \/ ret'.thread = t

\* thread t returns r in this step
Returns(t, r) == ret' = Ret(t, child[t], r)

\* the running subprocesses that start_tunnel spawned for key k
Live(k) == {p \in DOMAIN procs : Running(procs, p) /\ procs[p].key = k}

\* C1: in every reachable state at most one running subprocess spawned by
\* start_tunnel exists per key.
OneLiveTunnelPerKey ==
    \A k \in Keys : Cardinality(Live(k)) <= 1

\* C2: no step gives a key that already has a registry entry another handle:
\* an insert never replaces an existing handle.
InsertNeverReplaces ==
    [][\A k \in DOMAIN tunnels :
          k \in DOMAIN tunnels' => tunnels'[k] = tunnels[k]]_vars

\* C3: a start_tunnel call for a key, made after an earlier start_tunnel for
\* that key returned Ok(p) and with no stop_tunnel for it since, returns Ok(p)
\* and spawns no subprocess.
SecondStartReuses ==
    [][\A t \in Threads :
          (pc[t] \in StartPcs /\ pc'[t] = "idle" /\ okStart[KeyOf(t)].n > 0)
          => /\ Returns(t, OkPort(KeyOf(t), okStart[KeyOf(t)].port))
             /\ child[t] = 0]_vars

\* two start_tunnel calls for one key returned Ok, and one subprocess was spawned
SecondStartReturned ==
    \E k \in Keys : okStart[k].n = 2 /\ Len(procs) = 1

\* C4: no thread holds the registry lock at a blocking step: a probe of the
\* local port, or the kill and wait of a subprocess.
LockNeverHeldWhileBlocking ==
    \A t \in Threads :
        pc[t] \in {"s_poll", "s_fail", "st_stop", "h_probe"} => lock # t

\* C5: the poll iteration after which start_tunnel goes on to insert found
\* both the child still running and the local port accepting a connection.
InsertOnlyAfterJointCheck ==
    [][\A t \in Threads :
          (pc[t] = "s_poll" /\ pc'[t] = "s_insert")
          => (Running(procs, child[t]) /\ PortAccepts(port[t]))]_vars

\* C6: once the subprocess has exited before a poll iteration succeeded, the
\* next step of start_tunnel is the return of the process-died error.
ExitFailsImmediately ==
    [][\A t \in Threads :
          (pc[t] \in {"s_alive", "s_poll"} /\ ~Running(procs, child[t]) /\ Steps(t))
          => (pc'[t] = "idle" /\ Returns(t, Err("start", KeyOf(t), ErrDied)))]_vars

\* C7: start_tunnel gets past its poll loop without a successful probe only
\* after PollAttempts failed probes; it then kills and waits for the subprocess,
\* returns the port-not-listening error, and neither has inserted nor inserts a
\* registry entry.
PollExhaustedKillsAndFails ==
    [][\A t \in Threads :
          /\ (pc[t] # "s_fail" /\ pc'[t] = "s_fail")
             => (pc[t] = "s_poll" /\ attempt[t] = PollAttempts - 1
                 /\ ~PortAccepts(port[t]))
          /\ (pc[t] = "s_fail" /\ Steps(t))
             => /\ Returns(t, Err("start", KeyOf(t), ErrNotListening))
                /\ pc'[t] = "idle"
                /\ ~Running(procs', child[t])
                /\ tunnels' = tunnels
                /\ \A k \in DOMAIN tunnels : tunnels[k].process # child[t]
          /\ (ret'.thread = t /\ ret'.err = ErrNotListening) => pc[t] = "s_fail"]_vars

\* a start_tunnel returned the port-not-listening error
PollExhausted ==
    /\ ret.err = ErrNotListening
    /\ procs[ret.child].status = "killed"

\* C8: the step in which stop_tunnel returns after removing an entry leaves no
\* entry for the key and the removed entry's subprocess not running; when there
\* is no entry, stop_tunnel returns Ok and changes neither the registry nor any
\* subprocess.
StopTunnelPost ==
    [][\A t \in Threads :
          /\ (pc[t] = "st_remove" /\ Steps(t))
             => IF KeyOf(t) \in DOMAIN tunnels
                THEN /\ pc'[t] = "st_stop"
                     /\ child'[t] = tunnels[KeyOf(t)].process
                     /\ KeyOf(t) \notin DOMAIN tunnels'
                ELSE /\ pc'[t] = "idle"
                     /\ Returns(t, OkUnit(KeyOf(t)))
                     /\ tunnels' = tunnels
                     /\ procs' = procs
          /\ (pc[t] = "st_stop" /\ Steps(t))
             => /\ pc'[t] = "idle"
                /\ Returns(t, OkUnit(KeyOf(t)))
                /\ KeyOf(t) \notin DOMAIN tunnels'
                /\ ~Running(procs', child[t])]_vars

\* a stop_tunnel returned, its key has no entry and a subprocess was killed
StopKilled ==
    /\ ret.op = "stop"
    /\ ret.ok
    /\ ret.key \notin DOMAIN tunnels
    /\ ret.child # 0
    /\ procs[ret.child].status = "killed"

\* C9: check_tunnel_health returns the no-tunnel error exactly when the key has
\* no entry; otherwise it returns Ok(b), and b is true exactly when the entry's
\* subprocess was running when checked and the entry's port then accepted a
\* connection.
HealthResult ==
    [][\A t \in Threads :
          /\ (pc[t] = "h_get" /\ Steps(t))
             => IF KeyOf(t) \in DOMAIN tunnels
                THEN pc'[t] = "h_alive"
                ELSE /\ pc'[t] = "idle"
                     /\ Returns(t, Err("health", KeyOf(t), ErrNoTunnel))
          /\ (pc[t] = "h_alive" /\ Steps(t))
             => IF Running(procs, tunnels[KeyOf(t)].process)
                THEN pc'[t] = "h_probe"
                ELSE pc'[t] = "idle" /\ Returns(t, OkBool(KeyOf(t), FALSE))
          /\ (pc[t] = "h_probe" /\ Steps(t))
             => /\ pc'[t] = "idle"
                /\ Returns(t, OkBool(KeyOf(t), PortAccepts(tunnels[KeyOf(t)].local_port)))
          /\ (ret'.thread = t /\ ret'.op = "health" /\ ret'.ok)
             => KeyOf(t) \in DOMAIN tunnels]_vars

\* a check_tunnel_health returned Ok(true) for a running, reachable tunnel
HealthyReported ==
    /\ ret.op = "health"
    /\ ret.ok
    /\ ret.healthy
    /\ ret.key \in DOMAIN tunnels
    /\ Running(procs, tunnels[ret.key].process)
    /\ PortAccepts(tunnels[ret.key].local_port)

ValidationFirst ==
    [][\A t \in Threads :
          /\ (ret'.thread = t /\ ret'.err = ErrValidation)
             => /\ pc[t] = "idle" /\ pc'[t] = "idle"
                /\ ret'.op = "start" /\ ret'.child = 0
                /\ port' = port
                /\ procs' = procs
                /\ tunnels' = tunnels
                /\ lock' = lock
          /\ (pc[t] = "idle" /\ pc'[t] \in StartPcs)
             => (pc'[t] = "s_check" /\ procs' = procs /\ tunnels' = tunnels
                 /\ lock' = lock /\ port' = port)]_vars

\* a start_tunnel returned the validation error while a tunnel is registered and
\* its subprocess runs
ValidationFailed ==
    /\ ret.op = "start"
    /\ ret.err = ErrValidation
    /\ \E k \in DOMAIN tunnels : Running(procs, tunnels[k].process)

\* C12: every start_tunnel call returns, and has made at most PollAttempts
\* probes of its port when it leaves the poll loop.
StartTerminates ==
    /\ [](\A t \in Threads : attempt[t] < PollAttempts)
    /\ [][\A t \in Threads :
            (pc[t] = "s_poll" /\ pc'[t] = "s_poll" /\ Steps(t))
            => attempt'[t] = attempt[t] + 1]_vars
    /\ \A t \in {"t1"} : (pc[t] \in StartPcs) ~> (pc[t] = "idle")

\* a start_tunnel is about to make its last probe
LastAttempt ==
    \E t \in Threads : pc[t] = "s_poll" /\ attempt[t] = PollAttempts - 1

TypeOK ==
    /\ DOMAIN tunnels \subseteq Keys
    /\ lock \in Threads \cup {NoThread}
    /\ Len(procs) <= MaxSpawns
    /\ \A t \in Threads : attempt[t] \in 0 .. PollAttempts

\* a piece ".." between separators
HasDotDot(raw) == \E i \in 1 .. Len(Segs(raw)) : Segs(raw)[i] = <<".", ".">>

\* C13 as stated: a path with a ".." component fails with the path-traversal
\* error of its validator, whatever the username.
DotDotAlwaysTraversalError ==
    (guard.state = "returned" /\ HasDotDot(guard.path))
    => (~guard.result.ok
        /\ guard.result.err = IF guard.fn = "remote" THEN ErrTraversal
                              ELSE ErrLocalTraversal)

\* C13, amended: a path with a ".." component always fails; a local path
\* fails with the local path-traversal error, a remote path with the
\* path-traversal error when the username matches its grammar and with the
\* invalid-username error when it does not.
DotDotRejected ==
    (guard.state = "returned" /\ HasDotDot(guard.path))
    => /\ ~guard.result.ok
       /\ guard.result.err =
            IF guard.fn = "local" THEN ErrLocalTraversal
            ELSE IF validate_username(guard.username) THEN ErrTraversal
            ELSE ErrUsername

\* a remote path under the user's own home with a ".." component was rejected
\* for a username that matches its grammar
DotDotUnderHomeRejected ==
    /\ guard.state = "returned"
    /\ guard.fn = "remote"
    /\ guard.username = <<"u">>
    /\ guard.path = <<"x", "/", ".", ".">>
    /\ guard.result.err = ErrTraversal

\* C14: a path returned by remote path validation has no parent-directory
\* component, has /home/u as a component-wise prefix, and is not /home/u.
RemotePathStrictlyUnderHome ==
    (guard.state = "returned" /\ guard.fn = "remote" /\ guard.result.ok)
    => LET path == guard.result.path
           base == <<RootDir, Component("Normal", <<"home">>),
                     Component("Normal", guard.username)>>
       IN /\ \A i \in 1 .. Len(path) : path[i].kind # "ParentDir"
          /\ starts_with(path, base)
          /\ path # base

\* C14, amended: a path returned by remote path validation has no
\* parent-directory component and has /home/u as a component-wise prefix; it
\* is /home/u itself or a descendant of it.
RemotePathUnderHome ==
    (guard.state = "returned" /\ guard.fn = "remote" /\ guard.result.ok)
    => LET path == guard.result.path
           base == <<RootDir, Component("Normal", <<"home">>),
                     Component("Normal", guard.username)>>
       IN /\ \A i \in 1 .. Len(path) : path[i].kind # "ParentDir"
          /\ starts_with(path, base)

\* remote path validation returned /home/u/x for the absolute path /home/u/x
AbsolutePathUnderHomeReturned ==
    /\ guard.state = "returned"
    /\ guard.fn = "remote"
    /\ guard.username = <<"u">>
    /\ guard.path = <<"/", "home", "/", "u", "/", "x">>
    /\ guard.result.ok
    /\ guard.result.path = <<RootDir, Component("Normal", <<"home">>),
                             Component("Normal", <<"u">>),
                             Component("Normal", <<"x">>)>>

\* C15: at every step of copy_with_limit the writer holds at most max_size
\* bytes; a chunk that takes total_bytes above max_size is not written, and
\* the call has then returned the size-exceeded error.
CopyNeverExceedsLimit ==
    copy.state # "none"
    => /\ Len(copy.out) <= copy.max_size
       /\ copy.state = "write" => copy.total_bytes <= copy.max_size
       /\ copy.total_bytes > copy.max_size
          => /\ copy.state = "returned"
             /\ copy.result = CopyErr(ErrSize)
             /\ Len(copy.out) = copy.total_bytes - copy.bytes_read

\* the size-exceeded error was returned after chunks that fit were written
CopyAbortedAfterWrites ==
    /\ copy.state = "returned"
    /\ copy.result = CopyErr(ErrSize)
    /\ copy.out # << >>
    /\ copy.bytes_read > 1

\* C16: a copy_with_limit that returned without a read or write error returned
\* Ok exactly when the source has at most max_size bytes; Ok carries the
\* source's length, and the writer then holds the source's bytes in order.
CopySucceedsIffFits ==
    (copy.state = "returned" /\ copy.result.err \notin {ErrRead, ErrWrite})
    => /\ copy.result.ok <=> copy.src <= copy.max_size
       /\ copy.result.ok
          => (copy.result.bytes = copy.src /\ copy.out = Bytes(0, copy.src))
       /\ ~copy.result.ok
          => (copy.result.err = ErrSize /\ Len(copy.out) <= copy.max_size)

\* a source of exactly max_size bytes was copied, and one of max_size + 1 bytes
\* can be refused
CopyAtLimitSucceeded ==
    /\ copy.state = "returned"
    /\ copy.result.ok
    /\ copy.src = copy.max_size
    /\ copy.result.bytes = MaxLimit
    /\ copy.out = Bytes(0, MaxLimit)

\* the positions of a sequence, and whether q is p reordered
Perms(n) == {f \in [1 .. n -> 1 .. n] : \A i, j \in 1 .. n : i # j => f[i] # f[j]}
Reordered(p, q) ==
    /\ Len(p) = Len(q)
    /\ \E f \in Perms(Len(p)) : \A i \in 1 .. Len(p) : q[i] = p[f[i]]

\* C18: the sequence sftp_list_directory returns is a reordering of the remote
\* entries other than "." and "..", every directory before every
\* non-directory, and names within each group ascending by lower-cased form.
ListingSorted ==
    listing.state = "returned"
    => LET out == listing.result
           Kept(e) == e.name # <<".">> /\ e.name # <<".", ".">>
           kept == SelectSeq(listing.served, Kept)
           want == [i \in 1 .. Len(kept) |->
                       RemoteFileEntry(kept[i].name, kept[i].is_dir)]
       IN /\ Reordered(want, out)
          /\ \A i, j \in 1 .. Len(out) :
                i < j => /\ out[j].is_directory => out[i].is_directory
                         /\ out[i].is_directory = out[j].is_directory
                            => StrCmp(to_lowercase(out[i].name),
                                      to_lowercase(out[j].name)) # "Greater"

\* a listing was returned for a directory served as "..", the file "b", the
\* directory "B": "B" comes first and ".." is gone
ListingReturned ==
    /\ listing.state = "returned"
    /\ listing.served = <<DirEntry(<<".", ".">>, TRUE), DirEntry(<<"b">>, FALSE),
                          DirEntry(<<"B">>, TRUE)>>
    /\ listing.result = <<RemoteFileEntry(<<"B">>, TRUE),
                          RemoteFileEntry(<<"b">>, FALSE)>>

\* C19: the sequence returned for a directory is the same whatever order the
\* server sends the directory's entries in.
ListingOrderDeterministic ==
    listing.state = "returned"
    => \A f \in Perms(Len(listing.served)) :
          list_directory([i \in 1 .. Len(listing.served) |-> listing.served[f[i]]])
          = listing.result

\* the arguments of the call pass the validation of the given kind
ArgsPass(kind) ==
    IF kind = "remote"
    THEN validate_and_normalize_path(sftp.remote_path, sftp.username).ok
    ELSE validate_local_path(sftp.local_path, HomeOf(<<"u">>), sftp.canon).ok

AllArgsPass ==
    \A i \in 1 .. Len(Validations(sftp.op)) : ArgsPass(Validations(sftp.op)[i])

ValidationSteps == {"validate_remote", "validate_local"}

\* C17: in every sftp operation a connection is made only after each of the
\* operation's path validations has been made and has passed; when an argument
\* fails its validation the call makes no connection and no session and no
\* step other than validations; a call makes at most one connection and one
\* session, makes no step twice, and ends at its first failed step.
SftpValidatesThenConnectsOnce ==
    sftp.op # "none"
    => /\ (\E i \in 1 .. Len(sftp.trace) : sftp.trace[i] \notin ValidationSteps)
          => /\ AllArgsPass
             /\ \A k \in 1 .. Len(Validations(sftp.op)) :
                   sftp.trace[k] = "validate_" \o Validations(sftp.op)[k]
       /\ sftp.connects + sftp.sessions > 0
          => (\E i \in 1 .. Len(sftp.trace) : sftp.trace[i] = "connect")
       /\ ~AllArgsPass
          => /\ sftp.connects = 0 /\ sftp.sessions = 0
             /\ sftp.pc = "returned" => sftp.result \notin {"none", "Ok"}
       /\ sftp.connects <= 1 /\ sftp.sessions <= 1
       /\ \A i, j \in 1 .. Len(sftp.trace) : i # j => sftp.trace[i] # sftp.trace[j]
       /\ sftp.result \notin {"none", "Ok"} => sftp.pc = "returned"
       /\ sftp.pc = "returned" => sftp.result # "none"

\* sftp_download_file returned the local path's traversal error after its
\* remote path had passed, without a connection
SftpSecondValidationFailed ==
    /\ sftp.op = "download"
    /\ sftp.pc = "returned"
    /\ sftp.trace = <<"validate_remote", "validate_local">>
    /\ sftp.result = ErrLocalTraversal
    /\ sftp.connects = 0

\* C20: create_ssh_session hands a session to its caller only if the session
\* is authenticated then; an authentication call that returned Ok on a session
\* that is not authenticated ends in the authentication error.
SessionOnlyIfAuthenticated ==
    sftp.op # "none"
    => /\ (\E i \in 1 .. Len(sftp.trace) : sftp.trace[i] = "sess.sftp") => sftp.authed
       /\ sftp.pc \in {"sftp_channel", "request"} => sftp.authed
       /\ sftp.result = "Ok" => sftp.authed
       /\ (sftp.pc = "returned" /\ ~sftp.authed
           /\ sftp.trace[Len(sftp.trace)] = "authenticated")
          => sftp.result = ErrAuthCheck

\* userauth_agent returned Ok, authenticated() was false, and the call failed
UnauthenticatedSessionRefused ==
    /\ sftp.pc = "returned"
    /\ sftp.agent_ok
    /\ ~sftp.authed
    /\ sftp.result = ErrAuthCheck

\* the step was made in this call, and it was made before the other
Made(step) == \E i \in 1 .. Len(sftp.trace) : sftp.trace[i] = step

Before(first, second) ==
    \E i, j \in 1 .. Len(sftp.trace) :
       i < j /\ sftp.trace[i] = first /\ sftp.trace[j] = second

AgentFirstThenKeyFile ==
    sftp.op # "none"
    => /\ \A step \in {"home_dir", "key_path.exists", "userauth_pubkey_file",
                       "authenticated"} :
             Made(step) => Before("userauth_agent", step)
       /\ Made("userauth_pubkey_file")
          => /\ ~sftp.agent_ok
             /\ sftp.key_exists = "yes"
             /\ Before("key_path.exists", "userauth_pubkey_file")
       /\ (Made("userauth_agent") /\ sftp.agent_ok)
          => /\ ~Made("home_dir") /\ ~Made("key_path.exists")
             /\ ~Made("userauth_pubkey_file")
             /\ sftp.key_exists = "unchecked"
       /\ sftp.key_exists = "no" => ~Made("userauth_pubkey_file")

\* the agent failed, the key file exists and was tried
KeyFileTriedAfterAgent ==
    /\ ~sftp.agent_ok
    /\ Before("userauth_agent", "userauth_pubkey_file")
    /\ sftp.authed

\* C30: sftp_download_file creates or truncates the local file only after both
\* validations, the authentication of the session and the opening of the
\* remote file have succeeded; a call that fails before leaves the local file
\* untouched, and a call whose copy fails leaves the partly written file.
DownloadTouchesLocalFileLast ==
    sftp.op = "download"
    => /\ sftp.local_file # "untouched"
          => /\ AllArgsPass
             /\ sftp.authed
             /\ Before("validate_remote", "File::create")
             /\ Before("validate_local", "File::create")
             /\ Before("authenticated", "File::create")
             /\ Before("sftp.open", "File::create")
       /\ (sftp.pc = "returned" /\ ~Made("copy_with_limit"))
          => sftp.result # "Ok" /\ sftp.local_file = "untouched"
       /\ (sftp.pc = "returned" /\ Made("copy_with_limit"))
          => sftp.local_file = IF sftp.result = "Ok" THEN "complete" ELSE "partial"

\* the copy of a download failed and the partly written file stays
DownloadCopyFailed ==
    /\ sftp.op = "download"
    /\ sftp.pc = "returned"
    /\ sftp.trace[Len(sftp.trace)] = "copy_with_limit"
    /\ sftp.result = ErrRequest
    /\ sftp.local_file = "partial"

\* a call of the validator has returned
Returned(fn) == ident.fn = fn /\ ident.state = "returned"

\* C22: validate_project_id accepts a string exactly when it has 6 to 30
\* characters, starts with a lowercase letter, has only lowercase letters,
\* digits and hyphens, and ends with a lowercase letter or a digit.
ProjectIdAcceptedIffRule ==
    Returned("validate_project_id")
    => (ident.ok <=>
          /\ Len(ident.input) \in 6 .. 30
          /\ ident.input[1] \in LowerCase
          /\ \A i \in 1 .. Len(ident.input) :
                ident.input[i] \in LowerCase \cup Digits \cup {"-"}
          /\ ident.input[Len(ident.input)] \in LowerCase \cup Digits)

\* characters the claim names as never accepted
ShellChars == {";", "|", "&", "BQ", "$", "(", ")", "/", ".", " ", "LF", "A"}

\* C23: a string accepted by validate_project_id, validate_zone or
\* validate_instance_name has only characters of [a-z0-9-], one accepted by
\* validate_username only characters of [a-z0-9_-]; no accepted string holds
\* a shell character, a "/", a ".", white space or an uppercase letter, and
\* none starts with a digit or a hyphen.
AcceptedIdentifiersAreSafe ==
    (/\ ident.fn \in {"validate_project_id", "validate_zone",
                      "validate_instance_name", "validate_username"}
     /\ ident.state = "returned"
     /\ ident.ok)
    => /\ \A i \in 1 .. Len(ident.input) :
             /\ ident.input[i] \in LowerCase \cup Digits \cup
                   (IF ident.fn = "validate_username" THEN {"_", "-"} ELSE {"-"})
             /\ ident.input[i] \notin ShellChars
       /\ ident.input # << >>
       /\ ident.input[1] \notin Digits \cup {"-"}

\* validate_username accepted a name with an underscore and hyphens
UsernameWithPunctuationAccepted ==
    /\ Returned("validate_username")
    /\ ident.ok
    /\ ident.input[1] = "_"
    /\ \E i \in 2 .. Len(ident.input) : ident.input[i] = "-"

\* the zone grammar, said without a matcher: letters, a hyphen, letters,
\* digits, a hyphen and one letter
ZoneGrammar(str) ==
    \E a, b, c \in 1 .. Len(str) :
       /\ 1 < a /\ a + 1 < b /\ b < c /\ c + 1 = Len(str)
       /\ \A i \in 1 .. a - 1 : str[i] \in LowerCase
       /\ str[a] = "-"
       /\ \A i \in a + 1 .. b - 1 : str[i] \in LowerCase
       /\ \A i \in b .. c - 1 : str[i] \in Digits
       /\ str[c] = "-"
       /\ str[c + 1] \in LowerCase

\* z is the text of url after its last "/", all of url when it has none
AfterLastSlash(url, z) ==
    /\ \A i \in 1 .. Len(z) : z[i] # "/"
    /\ Len(z) <= Len(url)
    /\ z = SubSeq(url, Len(url) - Len(z) + 1, Len(url))
    /\ Len(z) < Len(url) => url[Len(url) - Len(z)] = "/"

\* C24: sanitize_zone_from_url(url) returns Ok(z) exactly when the text after
\* the last "/" of url matches the zone grammar, and z is that text; a valid
\* zone is returned unchanged, and every returned value passes validate_zone.
SanitizeReturnsValidLastSegment ==
    Returned("sanitize_zone_from_url")
    => /\ ident.ok <=> \E k \in 0 .. Len(ident.input) :
                          LET z == SubSeq(ident.input, k + 1, Len(ident.input))
                          IN AfterLastSlash(ident.input, z) /\ ZoneGrammar(z)
       /\ ident.ok => /\ AfterLastSlash(ident.input, ident.zone)
                      /\ ZoneGrammar(ident.zone)
                      /\ validate_zone(ident.zone)
       /\ validate_zone(ident.input) => ident.ok /\ ident.zone = ident.input

\* a zone was taken from behind the last of two "/"
ZoneTakenFromUrl ==
    /\ Returned("sanitize_zone_from_url")
    /\ ident.ok
    /\ ident.input = <<"a", "/"   >> \o ident.zone
    /\ ident.zone = <<"a", "-", "a", "1", "-", "a">>

\* C26: every running subprocess that start_tunnel spawned is referred to by
\* the Child of a call in progress or by a registry entry.
RunningSubprocessHasOwner ==
    \A p \in DOMAIN procs : Running(procs, p) => p \in Refs(tunnels, child)

\* C27: no two registry entries with different keys record the same local port.
RegisteredPortsDistinct ==
    \A k1, k2 \in DOMAIN tunnels :
       k1 # k2 => tunnels[k1].local_port # tunnels[k2].local_port

\* the keys of the registry entries whose subprocess has ended
DeadEntries == {k \in DOMAIN tunnels : ~Running(procs, tunnels[k].process)}

\* the first scope of start_tunnel ends in this step for thread t
ChecksRegistry(t) == pc[t] = "s_check" /\ Steps(t)

LockPcs == {"s_check", "s_insert", "st_remove", "h_get"}
HoldPcs == {"st_stop", "h_alive", "h_probe"}

====
